---- MODULE Spec2Model ----
(***************************************************************************)
(* Model of scripts/expand_conditionals.py: the condition evaluator, the   *)
(* ternary expander, the two-pass expansion pipeline and the file layer.   *)
(* Text is a sequence of one-character strings; a non-ASCII character is   *)
(* one element named by its code point.                                    *)
(***************************************************************************)
EXTENDS Integers, Sequences, FiniteSets, TLC

VARIABLES
    pc,       \* position of the running harness / pipeline / batch loop
    a, b,     \* evaluator: the two condition texts handed to evaluate_condition
    res,      \* evaluator: results of the evaluate_condition calls made so far
    parts,    \* pipeline: the pieces the input document was assembled from
    content,  \* pipeline: subject text of the re.sub pass in progress
    pos,      \* pipeline: scan position of re.sub in content (1-based)
    out,      \* pipeline: text emitted so far by the re.sub pass in progress
    run,      \* pipeline: 1 during the first expand_content call, 2 during the second
    calls,    \* pipeline: (body, replacement) of each expand_ternary call of run 1
    pass1,    \* pipeline: text after the ternary pass of each run
    result,   \* pipeline: value returned by expand_content in each run
    disk,     \* file layer: text of each .md file
    todo,     \* file layer: files rglob has not yielded yet
    attempts, \* file layer: number of process_file calls per file
    report,   \* file layer: line printed for each file
    original, \* file layer: text of each file when the batch started
    writes,   \* file layer: number of completed write_text calls per file
    count     \* file layer: process_directory's counter

vars == <<pc, a, b, res, parts, content, pos, out, run, calls, pass1, result,
          disk, todo, attempts, report, original, writes, count>>
evalVars == <<a, b, res>>
pipeVars == <<parts, content, pos, out, run, calls, pass1, result>>
fileVars == <<disk, todo, attempts, report, original, writes, count>>

(***************************************************************************)
(* Python str / re primitives used by the script                           *)
(***************************************************************************)
\* str.strip() with no argument and the regex class \s
Whitespace == {" ", "\t", "\n", "\r", "\f"}

SetMin(S) == CHOOSE x \in S : \A y \in S : x <= y
SetMax(S) == CHOOSE x \in S : \A y \in S : x >= y

\* text[i:] for a 1-based i
Tail_(s, i) == SubSeq(s, i, Len(s))

\* whether sub occurs in s starting at index i
StartsAt(s, sub, i) ==
    /\ i >= 1
    /\ i + Len(sub) - 1 <= Len(s)
    /\ SubSeq(s, i, i + Len(sub) - 1) = sub

\* str.find(sub, from): index of the first occurrence at or after from, 0 for -1
Find(s, sub, from) ==
    LET hits == {i \in from..(Len(s) - Len(sub) + 1) : StartsAt(s, sub, i)}
    IN IF hits = {} THEN 0 ELSE SetMin(hits)

\* str.rfind(sub): index of the last occurrence, 0 for -1
RFind(s, sub) ==
    LET hits == {i \in 1..(Len(s) - Len(sub) + 1) : StartsAt(s, sub, i)}
    IN IF hits = {} THEN 0 ELSE SetMax(hits)

\* sub in s
Contains(s, sub) == Find(s, sub, 1) # 0

\* s.startswith(sub)
StartsWith(s, sub) == StartsAt(s, sub, 1)

\* s.replace(sub, new): every non-overlapping occurrence, left to right
RECURSIVE Replace(_, _, _)
Replace(s, sub, new) ==
    LET i == Find(s, sub, 1)
    IN IF i = 0 THEN s
       ELSE SubSeq(s, 1, i - 1) \o new \o Replace(Tail_(s, i + Len(sub)), sub, new)

\* s.split(sep)
RECURSIVE Split(_, _)
Split(s, sep) ==
    LET i == Find(s, sep, 1)
    IN IF i = 0 THEN <<s>>
       ELSE <<SubSeq(s, 1, i - 1)>> \o Split(Tail_(s, i + Len(sep)), sep)

\* s.strip(chars): every leading and trailing character of the set is removed
StripChars(s, chars) ==
    LET keep == {i \in 1..Len(s) : s[i] \notin chars}
    IN IF keep = {} THEN << >> ELSE SubSeq(s, SetMin(keep), SetMax(keep))

\* s.strip()
Strip(s) == StripChars(s, Whitespace)

(***************************************************************************)
(* The tables                                                              *)
(***************************************************************************)
\* Python values held by DECISIONS
None == [t |-> "None"]
PyBool(v) == [t |-> "bool", b |-> v]
PyStr(s) == [t |-> "str", s |-> s]

\* bool(v)
Truthy(v) ==
    CASE v.t = "None" -> FALSE
      [] v.t = "bool" -> v.b
      [] v.t = "str" -> v.s # << >>

\* v != 'pro' style comparison of a table value with a string literal
NotEqualStr(v, s) == ~(v.t = "str" /\ v.s = s)

DECISIONS ==
       (<<"O","U","T","P","U","T","_","S","T","Y","L","E","_","C","O","N","F","I","G">> :> None)
    @@ (<<"G","E","T","_","S","U","B","S","C","R","I","P","T","I","O","N","_","T","Y","P","E","_","F","N","(",")">> :> PyStr(<<"f","r","e","e">>))
    @@ (<<"C","L","A","U","D","E","_","C","O","D","E","_","G","U","I","D","E","_","S","U","B","A","G","E","N","T","_","T","Y","P","E",".","h","a","s">> :> PyBool(TRUE))
    @@ (<<"D","I","S","A","B","L","E","_","B","A","C","K","G","R","O","U","N","D","_","T","A","S","K","S">> :> PyBool(FALSE))
    @@ (<<"F","A","L","S","E","(",")">> :> PyBool(FALSE))
    @@ (<<"T","R","U","E","(",")">> :> PyBool(TRUE))
BUILD_TIME_VARS ==
       (<<"B","A","S","H","_","T","O","O","L","_","N","A","M","E">> :> <<"B","a","s","h">>)
    @@ (<<"B","A","S","H","_","T","O","O","L","_","N","A","M","E",".","n","a","m","e">> :> <<"B","a","s","h">>)
    @@ (<<"B","A","S","H","_","T","O","O","L","_","O","B","J","E","C","T",".","n","a","m","e">> :> <<"B","a","s","h">>)
    @@ (<<"R","E","A","D","_","T","O","O","L","_","N","A","M","E">> :> <<"R","e","a","d">>)
    @@ (<<"R","E","A","D","_","T","O","O","L">> :> <<"R","e","a","d">>)
    @@ (<<"W","R","I","T","E","_","T","O","O","L","_","N","A","M","E">> :> <<"W","r","i","t","e">>)
    @@ (<<"W","R","I","T","E","_","T","O","O","L">> :> <<"W","r","i","t","e">>)
    @@ (<<"W","R","I","T","E","_","T","O","O","L",".","n","a","m","e">> :> <<"W","r","i","t","e">>)
    @@ (<<"E","D","I","T","_","T","O","O","L","_","N","A","M","E">> :> <<"E","d","i","t">>)
    @@ (<<"E","D","I","T","_","T","O","O","L",".","n","a","m","e">> :> <<"E","d","i","t">>)
    @@ (<<"G","L","O","B","_","T","O","O","L","_","N","A","M","E">> :> <<"G","l","o","b">>)
    @@ (<<"G","L","O","B","_","T","O","O","L">> :> <<"G","l","o","b">>)
    @@ (<<"G","R","E","P","_","T","O","O","L","_","N","A","M","E">> :> <<"G","r","e","p">>)
    @@ (<<"S","E","A","R","C","H","_","T","O","O","L","_","N","A","M","E">> :> <<"G","l","o","b">>)
    @@ (<<"T","A","S","K","_","T","O","O","L">> :> <<"T","a","s","k">>)
    @@ (<<"T","A","S","K","_","T","O","O","L","_","N","A","M","E">> :> <<"T","a","s","k">>)
    @@ (<<"T","A","S","K","_","T","O","O","L","_","N","A","M","E",".","n","a","m","e">> :> <<"T","a","s","k">>)
    @@ (<<"T","A","S","K","_","T","O","O","L","_","O","B","J","E","C","T">> :> <<"T","a","s","k">>)
    @@ (<<"T","A","S","K","_","T","O","O","L","_","O","B","J","E","C","T",".","n","a","m","e">> :> <<"T","a","s","k">>)
    @@ (<<"T","O","D","O","_","T","O","O","L","_","O","B","J","E","C","T">> :> <<"T","o","d","o","W","r","i","t","e">>)
    @@ (<<"A","S","K","_","U","S","E","R","_","Q","U","E","S","T","I","O","N","_","T","O","O","L","_","N","A","M","E">> :> <<"A","s","k","U","s","e","r","Q","u","e","s","t","i","o","n">>)
    @@ (<<"W","E","B","F","E","T","C","H","_","T","O","O","L","_","N","A","M","E">> :> <<"W","e","b","F","e","t","c","h">>)
    @@ (<<"W","E","B","S","E","A","R","C","H","_","T","O","O","L","_","N","A","M","E">> :> <<"W","e","b","S","e","a","r","c","h">>)
    @@ (<<"E","X","I","T","_","P","L","A","N","_","M","O","D","E","_","T","O","O","L",".","n","a","m","e">> :> <<"E","x","i","t","P","l","a","n","M","o","d","e">>)
    @@ (<<"E","X","I","T","_","P","L","A","N","_","M","O","D","E","_","T","O","O","L","_","O","B","J","E","C","T",".","n","a","m","e">> :> <<"E","x","i","t","P","l","a","n","M","o","d","e">>)
    @@ (<<"E","N","T","E","R","_","P","L","A","N","_","M","O","D","E","_","T","O","O","L",".","n","a","m","e">> :> <<"E","n","t","e","r","P","l","a","n","M","o","d","e">>)
    @@ (<<"C","U","S","T","O","M","_","T","I","M","E","O","U","T","_","M","S","(",")">> :> <<"6","0","0","0","0","0">>)
    @@ (<<"C","U","S","T","O","M","_","T","I","M","E","O","U","T","_","M","S","(",")","/","6","0","0","0","0">> :> <<"1","0">>)
    @@ (<<"M","A","X","_","T","I","M","E","O","U","T","_","M","S","(",")">> :> <<"1","2","0","0","0","0">>)
    @@ (<<"M","A","X","_","T","I","M","E","O","U","T","_","M","S","(",")","/","6","0","0","0","0">> :> <<"2">>)
    @@ (<<"M","A","X","_","O","U","T","P","U","T","_","C","H","A","R","S","(",")">> :> <<"3","0","0","0","0">>)
    @@ (<<"D","E","F","A","U","L","T","_","R","E","A","D","_","L","I","N","E","S">> :> <<"2","0","0","0">>)
    @@ (<<"M","A","X","_","L","I","N","E","_","L","E","N","G","T","H">> :> <<"2","0","0","0">>)
    @@ (<<"I","C","O","N","S","_","O","B","J","E","C","T",".","b","u","l","l","e","t">> :> <<"U+2022">>)
    @@ (<<"I","C","O","N","S","_","O","B","J","E","C","T",".","s","t","a","r">> :> <<"U+2605">>)
    @@ (<<"C","O","M","M","I","T","_","C","O","_","A","U","T","H","O","R","E","D","_","B","Y","_","C","L","A","U","D","E","_","C","O","D","E">> :> <<"C","o","-","A","u","t","h","o","r","e","d","-","B","y",":"," ","C","l","a","u","d","e"," ","<","n","o","r","e","p","l","y","@","a","n","t","h","r","o","p","i","c",".","c","o","m",">">>)
    @@ (<<"P","R","_","G","E","N","E","R","A","T","E","D","_","W","I","T","H","_","C","L","A","U","D","E","_","C","O","D","E">> :> <<"G","e","n","e","r","a","t","e","d"," ","w","i","t","h"," ","C","l","a","u","d","e"," ","C","o","d","e">>)
    @@ (<<"E","X","P","L","O","R","E","_","A","G","E","N","T">> :> <<"E","x","p","l","o","r","e">>)
    @@ (<<"E","X","P","L","O","R","E","_","S","U","B","A","G","E","N","T",".","a","g","e","n","t","T","y","p","e">> :> <<"E","x","p","l","o","r","e">>)
    @@ (<<"P","L","A","N","_","A","G","E","N","T",".","a","g","e","n","t","T","y","p","e">> :> <<"P","l","a","n">>)
\* dict.get(key, default)
DictGet(d, key, default) == IF key \in DOMAIN d THEN d[key] ELSE default

(***************************************************************************)
(* evaluate_condition                                                      *)
(***************************************************************************)
\* variant of the lookup without the base-name fallback
LookupNullableDirect(var_name) == DictGet(DECISIONS, var_name, None)

\* variant of the lookup whose last default is a value instead of None
LookupNullablePresent(var_name) ==
    DictGet(DECISIONS, var_name,
            DictGet(DECISIONS, Replace(var_name, <<"(",")">>, << >>), PyBool(TRUE)))

\* the lookup shared by the two null-check rules: the name itself, else the
\* name with every "()" removed, else None
LookupNullable(var_name) ==
    DictGet(DECISIONS, var_name,
            DictGet(DECISIONS, Replace(var_name, <<"(",")">>, << >>), None))

\* the '!==null' rule
NotNullRule(cond) ==
    LookupNullable(Strip(Replace(cond, <<"!","=","=","n","u","l","l">>, << >>))).t # "None"

\* variant of the '===null' rule that looks the name up without the fallback
IsNullRuleDirect(cond) ==
    LookupNullableDirect(Strip(Replace(cond, <<"=","=","=","n","u","l","l">>, << >>))).t = "None"

\* the '===null' rule
IsNullRule(cond) ==
    LookupNullable(Strip(Replace(cond, <<"=","=","=","n","u","l","l">>, << >>))).t = "None"

\* the '!=="pro"' rule
NotProRule == NotEqualStr(DictGet(DECISIONS, <<"G","E","T","_","S","U","B","S","C","R","I","P","T","I","O","N","_","T","Y","P","E","_","F","N","(",")">>, PyStr(<<"f","r","e","e">>)), <<"p","r","o">>)

\* the '.has' rule: the table value is returned as it is
HasRule == Truthy(DictGet(DECISIONS, <<"C","L","A","U","D","E","_","C","O","D","E","_","G","U","I","D","E","_","S","U","B","A","G","E","N","T","_","T","Y","P","E",".","h","a","s">>, PyBool(TRUE)))

\* re.search(r'IS_TRUTHY_FN\s*\(\s*[^)]*DISABLE_BACKGROUND_TASKS[^)]*\)', cond)
TruthyFnMatches(cond) ==
    \E i \in 1..Len(cond) :
        /\ StartsAt(cond, <<"I","S","_","T","R","U","T","H","Y","_","F","N">>, i)
        /\ \E p \in (i + Len(<<"I","S","_","T","R","U","T","H","Y","_","F","N">>))..Len(cond) :
            /\ cond[p] = "("
            /\ \A k \in (i + Len(<<"I","S","_","T","R","U","T","H","Y","_","F","N">>))..(p - 1) : cond[k] \in Whitespace
            /\ LET close == Find(cond, <<")">>, p)
               IN /\ close # 0
                  /\ Contains(SubSeq(cond, p + 1, close - 1), <<"D","I","S","A","B","L","E","_","B","A","C","K","G","R","O","U","N","D","_","T","A","S","K","S">>)

\* the IS_TRUTHY_FN rule
TruthyFnRule(cond) ==
    IF TruthyFnMatches(cond)
    THEN ~Truthy(DictGet(DECISIONS, <<"D","I","S","A","B","L","E","_","B","A","C","K","G","R","O","U","N","D","_","T","A","S","K","S">>, PyBool(FALSE)))
    ELSE TRUE

\* variant of the last two rules that excludes the content of an unknown condition
DefaultRuleExclude(cond) ==
    IF cond \in DOMAIN DECISIONS THEN Truthy(DECISIONS[cond]) ELSE FALSE

\* the last two rules: direct table lookup, else include the content
DefaultRule(cond) ==
    IF cond \in DOMAIN DECISIONS THEN Truthy(DECISIONS[cond]) ELSE TRUE

RECURSIVE evaluate_condition(_)
evaluate_condition(text) ==
    LET cond == Strip(text)
    IN IF cond = <<"F","A","L","S","E","(",")">> \/ cond = <<"F","A","L","S","E">> THEN FALSE
       ELSE IF cond = <<"T","R","U","E","(",")">> \/ cond = <<"T","R","U","E">> THEN TRUE
       ELSE IF Contains(cond, <<"!","=","=","n","u","l","l">>) THEN NotNullRule(cond)
       ELSE IF Contains(cond, <<"=","=","=","n","u","l","l">>) THEN IsNullRule(cond)
       ELSE IF Contains(cond, <<"!","=","=","\"","p","r","o","\"">>) THEN NotProRule
       ELSE IF Contains(cond, <<".","h","a","s">>) THEN HasRule
       ELSE IF StartsWith(cond, <<"!">>) THEN ~evaluate_condition(Tail_(cond, 2))
       ELSE IF Contains(cond, <<"I","S","_","T","R","U","T","H","Y","_","F","N">>) THEN TruthyFnRule(cond)
       ELSE IF Contains(cond, <<"&","&">>)
            THEN LET ps == Split(cond, <<"&","&">>)
                 IN \A i \in 1..Len(ps) : evaluate_condition(ps[i])
       ELSE IF Contains(cond, <<"|","|">>)
            THEN LET ps == Split(cond, <<"|","|">>)
                 IN \E i \in 1..Len(ps) : evaluate_condition(ps[i])
       ELSE DefaultRule(cond)

(***************************************************************************)
(* Evaluator harness: evaluate_condition is called on a, on b and on the   *)
(* texts built from them ("!" + a, a + "&&" + b, a + "||" + b,             *)
(* a + "!==null", a + "===null").                                         *)
(***************************************************************************)
\* largest number of leading "!" put in front of a condition
MaxNeg == 1

\* names usable as the entity of a null check
EntityNames ==
    { <<"X">>, <<"F","O","O","(",")">>, <<"O","U","T","P","U","T","_","S","T","Y","L","E","_","C","O","N","F","I","G">>, <<"O","U","T","P","U","T","_","S","T","Y","L","E","_","C","O","N","F","I","G","(",")">>,
      <<"D","I","S","A","B","L","E","_","B","A","C","K","G","R","O","U","N","D","_","T","A","S","K","S">>, <<"D","I","S","A","B","L","E","_","B","A","C","K","G","R","O","U","N","D","_","T","A","S","K","S","(",")">>,
      <<"G","E","T","_","S","U","B","S","C","R","I","P","T","I","O","N","_","T","Y","P","E","_","F","N","(",")">>, <<"G","E","T","_","S","U","B","S","C","R","I","P","T","I","O","N","_","T","Y","P","E","_","F","N">>,
      <<"C","L","A","U","D","E","_","C","O","D","E","_","G","U","I","D","E","_","S","U","B","A","G","E","N","T","_","T","Y","P","E",".","h","a","s">>, <<"T","R","U","E","(",")">>, <<"F","A","L","S","E","(",")">>, <<"T","R","U","E">>, <<"F","A","L","S","E">> }

\* conditions without a leading "!"
PlainConds ==
    EntityNames \cup
    { <<" ","T","R","U","E"," ">>, <<"X","!","=","=","n","u","l","l">>, <<"O","U","T","P","U","T","_","S","T","Y","L","E","_","C","O","N","F","I","G","!","=","=","n","u","l","l">>, <<"O","U","T","P","U","T","_","S","T","Y","L","E","_","C","O","N","F","I","G","=","=","=","n","u","l","l">>,
      <<"D","I","S","A","B","L","E","_","B","A","C","K","G","R","O","U","N","D","_","T","A","S","K","S","(",")","=","=","=","n","u","l","l">>, <<"X","!","=","=","\"","p","r","o","\"">>, <<"T",".","h","a","s","(","x",")">>,
      <<"I","S","_","T","R","U","T","H","Y","_","F","N","(","D","I","S","A","B","L","E","_","B","A","C","K","G","R","O","U","N","D","_","T","A","S","K","S",")">>, <<"I","S","_","T","R","U","T","H","Y","_","F","N"," ","("," ","D","I","S","A","B","L","E","_","B","A","C","K","G","R","O","U","N","D","_","T","A","S","K","S"," ",")">>,
      <<"I","S","_","T","R","U","T","H","Y","_","F","N","(","X",")">>, <<"T","R","U","E","&","&","F","A","L","S","E">>, <<"F","A","L","S","E","|","|","X">>, <<"x",">","1">>, <<" ","Y"," ">>, << >> }

\* second operands of "&&" and "||"
OperandConds ==
    { <<"T","R","U","E","(",")">>, <<"F","A","L","S","E","(",")">>, <<"X">>, <<"O","U","T","P","U","T","_","S","T","Y","L","E","_","C","O","N","F","I","G">>, <<"X","!","=","=","n","u","l","l">>,
      <<"O","U","T","P","U","T","_","S","T","Y","L","E","_","C","O","N","F","I","G","=","=","=","n","u","l","l">>, <<"I","S","_","T","R","U","T","H","Y","_","F","N","(","X",")">> }

RECURSIVE Bangs(_)
Bangs(n) == IF n = 0 THEN << >> ELSE <<"!">> \o Bangs(n - 1)

Negated(S) == {Bangs(n) \o c : n \in 0..MaxNeg, c \in S}

NoResults == [l \in {} |-> TRUE]

InitEval ==
    /\ pc = "A"
    /\ a \in Negated(PlainConds)
    /\ b \in Negated(OperandConds)
    /\ res = NoResults
    /\ parts = << >> /\ content = << >> /\ pos = 0 /\ out = << >> /\ run = 0
    /\ calls = << >> /\ pass1 = << >> /\ result = << >>
    /\ disk = << >> /\ todo = {} /\ attempts = << >> /\ report = << >>
    /\ original = << >> /\ writes = << >> /\ count = 0

\* the text each call of the harness hands to evaluate_condition
CallText(label) ==
    CASE label = "A" -> a
      [] label = "B" -> b
      [] label = "NotA" -> <<"!">> \o a
      [] label = "And" -> a \o <<"&","&">> \o b
      [] label = "Or" -> a \o <<"|","|">> \o b
      [] label = "NeqNull" -> a \o <<"!","=","=","n","u","l","l">>
      [] label = "EqNull" -> a \o <<"=","=","=","n","u","l","l">>

\* one evaluate_condition call of the harness
Evaluate(label, next) ==
    /\ pc = label
    /\ res' = res @@ (label :> evaluate_condition(CallText(label)))
    /\ pc' = next
    /\ UNCHANGED pipeVars
    /\ UNCHANGED fileVars

\* evaluate_condition(a)
EvalA ==
    /\ Evaluate("A", "B")
    /\ UNCHANGED <<a, b>>

\* evaluate_condition(b)
EvalB ==
    /\ Evaluate("B", "NotA")
    /\ UNCHANGED <<a, b>>

\* evaluate_condition("!" + a)
EvalNotA ==
    /\ Evaluate("NotA", "And")
    /\ UNCHANGED <<a, b>>

\* evaluate_condition(a + "&&" + b)
EvalAnd ==
    /\ Evaluate("And", "Or")
    /\ UNCHANGED <<a, b>>

\* evaluate_condition(a + "||" + b)
EvalOr ==
    /\ Evaluate("Or", "NeqNull")
    /\ UNCHANGED <<a, b>>

\* evaluate_condition(a + "!==null")
EvalNeqNull ==
    /\ Evaluate("NeqNull", "EqNull")
    /\ UNCHANGED <<a, b>>

\* evaluate_condition(a + "===null")
EvalEqNull ==
    /\ Evaluate("EqNull", "evaluated")
    /\ UNCHANGED <<a, b>>

NextEval ==
    \/ EvalA
    \/ EvalB
    \/ EvalNotA
    \/ EvalAnd
    \/ EvalOr
    \/ EvalNeqNull
    \/ EvalEqNull

SpecEval == InitEval /\ [][NextEval]_vars

(***************************************************************************)
(* Properties of the evaluator                                             *)
(***************************************************************************)
Called(label) == label \in DOMAIN res

\* a trimmed condition text that none of the rules before the fallback matches
Unrecognized(text) ==
    LET cond == Strip(text)
    IN /\ cond \notin {<<"T","R","U","E">>, <<"T","R","U","E","(",")">>, <<"F","A","L","S","E">>, <<"F","A","L","S","E","(",")">>}
       /\ ~Contains(cond, <<"!","=","=","n","u","l","l">>)
       /\ ~Contains(cond, <<"=","=","=","n","u","l","l">>)
       /\ ~Contains(cond, <<"!","=","=","\"","p","r","o","\"">>)
       /\ ~Contains(cond, <<".","h","a","s">>)
       /\ ~Contains(cond, <<"I","S","_","T","R","U","T","H","Y","_","F","N">>)
       /\ ~Contains(cond, <<"&","&">>)
       /\ ~Contains(cond, <<"|","|">>)
       /\ ~StartsWith(cond, <<"!">>)
       /\ cond \notin DOMAIN DECISIONS

\* the conditions of the harness that some rule before the fallback matches,
\* with up to MaxNeg leading "!"
Recognized(S) == Negated({c \in S : ~Unrecognized(c)})

\* an entity neither the table nor its base-name fallback knows
AbsentEntity(x) ==
    /\ x \in EntityNames
    /\ x \notin DOMAIN DECISIONS
    /\ Replace(x, <<"(",")">>, << >>) \notin DOMAIN DECISIONS

\* the table value the null checks resolve an entity to, written out from the table
ResolvesToValue(x) ==
    \/ x \in DOMAIN DECISIONS /\ DECISIONS[x] # None
    \/ /\ x \notin DOMAIN DECISIONS
       /\ Replace(x, <<"(",")">>, << >>) \in DOMAIN DECISIONS
       /\ DECISIONS[Replace(x, <<"(",")">>, << >>)] # None

\* C2: negation law. For every recognized condition c (written without a
\* leading "!"), evaluate_condition("!" + c) is the negation of
\* evaluate_condition(c).
NegationLaw ==
    (Called("NotA") /\ a \in PlainConds /\ ~Unrecognized(a))
        => (res["NotA"] = ~res["A"])

\* C3: AND/OR laws. For recognized sub-conditions A and B,
\* evaluate_condition(A + "&&" + B) is the conjunction and
\* evaluate_condition(A + "||" + B) the disjunction of the two evaluations.
AndOrLaws ==
    (Called("Or") /\ a \in Recognized(PlainConds) /\ b \in Recognized(OperandConds))
        => /\ res["And"] = (res["A"] /\ res["B"])
           /\ res["Or"] = (res["A"] \/ res["B"])

\* C4 as stated: an entity absent from the Decision Table (under its own name
\* and under its base name) is treated as not null: X!==null is true and
\* X===null is false.
AbsentEntityIsNotNull ==
    (pc = "evaluated" /\ AbsentEntity(a))
        => (res["NeqNull"] = TRUE /\ res["EqNull"] = FALSE)

\* C4 as amended: an entity absent from the Decision Table (under its own name
\* and under its base name) is treated as null: X!==null is false and X===null
\* is true; X!==null is true exactly when X is in the table with a non-null
\* value, or X is not in the table and its base name is, with a non-null value.
AbsentEntityIsNull ==
    (pc = "evaluated" /\ a \in EntityNames)
        => /\ AbsentEntity(a) => (res["NeqNull"] = FALSE /\ res["EqNull"] = TRUE)
           /\ res["NeqNull"] = ResolvesToValue(a)

AbsentEntityChecked ==
    pc = "evaluated" /\ AbsentEntity(a) /\ res["NeqNull"] = FALSE /\ res["EqNull"] = TRUE

\* C5: null-check pair consistency. For every entity name X the two null checks
\* are each other's negation, and neither text is caught by the other's rule.
NullCheckPair ==
    (pc = "evaluated" /\ a \in EntityNames)
        => /\ res["NeqNull"] = ~res["EqNull"]
           /\ ~Contains(CallText("NeqNull"), <<"=","=","=","n","u","l","l">>)
           /\ ~Contains(CallText("EqNull"), <<"!","=","=","n","u","l","l">>)

NullCheckPairChecked ==
    /\ pc = "evaluated"
    /\ a = <<"D","I","S","A","B","L","E","_","B","A","C","K","G","R","O","U","N","D","_","T","A","S","K","S","(",")">>
    /\ res["NeqNull"] = TRUE
    /\ res["EqNull"] = FALSE

\* C7: default-to-inclusion fallback. Every call returns a boolean, and a
\* condition that none of rules 1-10 matches evaluates to true.
FallbackIncludes ==
    \A label \in DOMAIN res :
        /\ res[label] \in BOOLEAN
        /\ Unrecognized(CallText(label)) => res[label] = TRUE

FallbackTaken ==
    Called("B") /\ Unrecognized(a) /\ Unrecognized(b) /\ res["A"] = TRUE /\ res["B"] = TRUE

(***************************************************************************)
(* expand_simple_var, expand_ternary and the two patterns of expand_content *)
(***************************************************************************)
Upper == {"A", "B", "C", "D", "E", "F", "G", "H", "I", "J", "K", "L", "M",
          "N", "O", "P", "Q", "R", "S", "T", "U", "V", "W", "X", "Y", "Z"}
Lower == {"a", "b", "c", "d", "e", "f", "g", "h", "i", "j", "k", "l", "m",
          "n", "o", "p", "q", "r", "s", "t", "u", "v", "w", "x", "y", "z"}
Digit == {"0", "1", "2", "3", "4", "5", "6", "7", "8", "9"}

\* index after the longest run of characters of cls that starts at from
RunEnd(s, from, cls) ==
    LET stops == {i \in from..Len(s) : s[i] \notin cls}
    IN IF stops = {} THEN Len(s) + 1 ELSE SetMin(stops)

\* [A-Z_][A-Z0-9_]*(?:\.[a-zA-Z_]+)?(?:\(\))?(?:/\d+)? matched against all of n
SimpleName(n) ==
    LET i1 == RunEnd(n, 1, Upper \cup Digit \cup {"_"})
        m2 == RunEnd(n, i1 + 1, Lower \cup Upper \cup {"_"})
        i2 == IF StartsAt(n, <<".">>, i1) /\ m2 > i1 + 1 THEN m2 ELSE i1
        i3 == IF StartsAt(n, <<"(",")">>, i2) THEN i2 + 2 ELSE i2
        m4 == RunEnd(n, i3 + 1, Digit)
        i4 == IF StartsAt(n, <<"/">>, i3) /\ m4 > i3 + 1 THEN m4 ELSE i3
    IN /\ n # << >>
       /\ n[1] \in Upper \cup {"_"}
       /\ i4 = Len(n) + 1

\* [^{}]+\?[^{}]+:[^{}]* matched against all of a brace-free body
TernaryBody(body) ==
    \E i \in 2..Len(body) : \E j \in (i + 2)..Len(body) :
        body[i] = "?" /\ body[j] = ":"

\* index of the "}" closing a "${" at p whose body holds no brace, else 0
SpanEnd(s, p) ==
    LET e == RunEnd(s, p + 2, {c \in {s[i] : i \in 1..Len(s)} : c \notin {"{", "}"}})
    IN IF StartsAt(s, <<"$","{">>, p) /\ e <= Len(s) /\ s[e] = "}" THEN e ELSE 0

SpanBody(s, p) == SubSeq(s, p + 2, SpanEnd(s, p) - 1)

\* ternary_pattern matches at p
TernaryAt(s, p) == SpanEnd(s, p) # 0 /\ TernaryBody(SpanBody(s, p))

\* simple_pattern matches at p
SimpleAt(s, p) == SpanEnd(s, p) # 0 /\ SimpleName(SpanBody(s, p))

\* start of the leftmost match at or after from, 0 when there is none
NextTernary(s, from) ==
    LET hits == {p \in from..Len(s) : TernaryAt(s, p)}
    IN IF hits = {} THEN 0 ELSE SetMin(hits)

NextSimple(s, from) ==
    LET hits == {p \in from..Len(s) : SimpleAt(s, p)}
    IN IF hits = {} THEN 0 ELSE SetMin(hits)

\* match.group(0) for a span body
Whole(body) == <<"$","{">> \o body \o <<"}">>

expand_simple_var(var_name) ==
    IF var_name \in DOMAIN BUILD_TIME_VARS THEN BUILD_TIME_VARS[var_name] ELSE Whole(var_name)

\* variant that splits at the first colon
FirstColon(rest) == Find(rest, <<":">>, 1)

\* position of the colon that separates the branches: the last one
ColonPos(rest) == RFind(rest, <<":">>)

\* .strip().strip('"')
NormalizeBranch(branch) == StripChars(Strip(branch), {"\""})

\* the branch returned for a condition value
PickBranch(value, true_branch, false_branch) == IF value THEN true_branch ELSE false_branch

expand_ternary(full_expr) ==
    LET q_pos == Find(full_expr, <<"?">>, 1)
        condition == Strip(SubSeq(full_expr, 1, q_pos - 1))
        rest == Tail_(full_expr, q_pos + 1)
        colon_pos == ColonPos(rest)
        true_branch == NormalizeBranch(SubSeq(rest, 1, colon_pos - 1))
        false_branch == NormalizeBranch(Tail_(rest, colon_pos + 1))
    IN IF q_pos = 0 THEN Whole(full_expr)
       ELSE IF colon_pos = 0 THEN Whole(full_expr)
       ELSE PickBranch(evaluate_condition(condition), true_branch, false_branch)

(***************************************************************************)
(* expand_content: re.sub with ternary_pattern, then re.sub with           *)
(* simple_pattern on the result. Each match of a pass is one step.         *)
(***************************************************************************)
\* largest number of double quotes wrapped around each end of a branch
MaxQuotes == 2

RECURSIVE Quotes(_)
Quotes(n) == IF n = 0 THEN << >> ELSE <<"\"">> \o Quotes(n - 1)

Prefixes == {<< >>, <<"S","e","e"," ","$">>}
Suffixes == {<< >>, <<" ","$","{","R","E","A","D","_","T","O","O","L","_","N","A","M","E","}"," ","$","{","R","U","N","T","I","M","E","_","V","A","R","}">>}
Conditions == {<<"T","R","U","E">>, <<" ","!","T","R","U","E","(",")"," ">>, <<"O","U","T","P","U","T","_","S","T","Y","L","E","_","C","O","N","F","I","G","!","=","=","n","u","l","l">>, <<"X">>}
BranchCores == {<< >>, <<"a">>, <<"k",":","v">>, <<"q","?","b",":","c">>, <<"s","a","y"," ","\"","h","i","\"">>, <<"U","s","e"," ","$","{","W","R","I","T","E","_","T","O","O","L","_","N","A","M","E","}">>, <<"$","{","X","?","$","{","G","L","O","B","_","T","O","O","L","}",":","y","}">>, <<":">>}
FalseCores == {<<"b">>, <<"$","{","F","A","L","S","E","?","x",":","y","}">>, <<"$","{","G","R","E","P","_","T","O","O","L","_","N","A","M","E","}">>, <<"u",":","w">>}
Paddings == {<< >>, <<" ">>}

Wrapped(cores) ==
    {p \o Quotes(n) \o c \o Quotes(n) \o p : p \in Paddings, n \in 0..MaxQuotes, c \in cores}

Documents ==
    [pre : Prefixes, cond : Conditions, tbranch : Wrapped(BranchCores),
     fbranch : Wrapped(FalseCores), post : Suffixes]

DocText(d) == d.pre \o <<"$","{">> \o d.cond \o <<"?">> \o d.tbranch \o <<":">> \o d.fbranch \o <<"}">> \o d.post

InitExpand ==
    /\ pc = "ternary"
    /\ parts \in Documents
    /\ content = DocText(parts)
    /\ pos = 1
    /\ out = << >>
    /\ run = 1
    /\ calls = << >>
    /\ pass1 = << >>
    /\ result = << >>
    /\ a = << >> /\ b = << >> /\ res = NoResults
    /\ disk = << >> /\ todo = {} /\ attempts = << >> /\ report = << >>
    /\ original = << >> /\ writes = << >> /\ count = 0

\* re.sub(ternary_pattern, expand_ternary, content): the next match
TernaryMatch ==
    /\ pc = "ternary"
    /\ NextTernary(content, pos) # 0
    /\ LET p == NextTernary(content, pos)
           body == SpanBody(content, p)
           repl == expand_ternary(body)
       IN /\ out' = out \o SubSeq(content, pos, p - 1) \o repl
          /\ pos' = SpanEnd(content, p) + 1
          /\ calls' = Append(calls, [run |-> run, body |-> body, repl |-> repl])
    /\ UNCHANGED <<pc, parts, content, run, pass1, result>>
    /\ UNCHANGED evalVars
    /\ UNCHANGED fileVars

\* no further ternary match: the pass returns and the simple pass starts on its result
TernaryDone ==
    /\ pc = "ternary"
    /\ NextTernary(content, pos) = 0
    /\ content' = out \o Tail_(content, pos)
    /\ pass1' = Append(pass1, content')
    /\ pos' = 1
    /\ out' = << >>
    /\ pc' = "simple"
    /\ UNCHANGED <<parts, run, calls, result>>
    /\ UNCHANGED evalVars
    /\ UNCHANGED fileVars

\* re.sub(simple_pattern, expand_simple_var, content): the next match
SimpleMatch ==
    /\ pc = "simple"
    /\ NextSimple(content, pos) # 0
    /\ LET p == NextSimple(content, pos)
       IN /\ out' = out \o SubSeq(content, pos, p - 1) \o expand_simple_var(SpanBody(content, p))
          /\ pos' = SpanEnd(content, p) + 1
    /\ UNCHANGED <<pc, parts, content, run, calls, pass1, result>>
    /\ UNCHANGED evalVars
    /\ UNCHANGED fileVars

\* no further simple match: expand_content returns
SimpleDone ==
    /\ pc = "simple"
    /\ NextSimple(content, pos) = 0
    /\ content' = out \o Tail_(content, pos)
    /\ result' = Append(result, content')
    /\ pos' = 1
    /\ out' = << >>
    /\ pc' = "returned"
    /\ UNCHANGED <<parts, run, calls, pass1>>
    /\ UNCHANGED evalVars
    /\ UNCHANGED fileVars

\* expand_content is called again on the text it returned
Rerun ==
    /\ pc = "returned"
    /\ run = 1
    /\ run' = 2
    /\ pc' = "ternary"
    /\ UNCHANGED <<parts, content, pos, out, calls, pass1, result>>
    /\ UNCHANGED evalVars
    /\ UNCHANGED fileVars

NextExpand ==
    \/ TernaryMatch
    \/ TernaryDone
    \/ SimpleMatch
    \/ SimpleDone
    \/ Rerun

SpecExpand == InitExpand /\ [][NextExpand]_vars

(***************************************************************************)
(* Properties of the ternary expander and of the pipeline                  *)
(***************************************************************************)
NoBraces(t) == ~Contains(t, <<"{">>) /\ ~Contains(t, <<"}">>)

\* the document is one span "cond?A:B" with brace-free branches, no "?" in
\* the condition and no ":" in the false branch
PlainSpan(d) ==
    /\ NoBraces(d.tbranch)
    /\ NoBraces(d.fbranch)
    /\ ~Contains(d.cond, <<"?">>)
    /\ ~Contains(d.fbranch, <<":">>)

\* the branch text the condition of the document selects
Selected(d) == IF evaluate_condition(d.cond) THEN d.tbranch ELSE d.fbranch

\* a text with at most one leading and one trailing double quote removed
OneQuoteLayer(t) ==
    LET t1 == IF t # << >> /\ t[1] = "\"" THEN Tail(t) ELSE t
    IN IF t1 # << >> /\ t1[Len(t1)] = "\"" THEN SubSeq(t1, 1, Len(t1) - 1) ELSE t1

\* C6: branch selection. For a span body cond?A:B (no "?" in cond, no ":" in
\* B) expand_ternary is handed the whole body and returns the normalized A
\* when the condition evaluates to true and the normalized B otherwise.
BranchSelection ==
    (PlainSpan(parts) /\ calls # << >>)
        => /\ calls[1].body = parts.cond \o <<"?">> \o parts.tbranch \o <<":">> \o parts.fbranch
           /\ calls[1].repl = NormalizeBranch(Selected(parts))

BranchWithColonSelected ==
    /\ PlainSpan(parts)
    /\ calls # << >>
    /\ Contains(parts.tbranch, <<":">>)
    /\ evaluate_condition(parts.cond)
    /\ calls[1].repl = NormalizeBranch(parts.tbranch)

\* C10: branch normalization removes exactly one layer of quotes: the
\* returned branch is the selected branch without its surrounding whitespace
\* and without at most one leading and one trailing double quote.
SingleQuoteLayer ==
    (PlainSpan(parts) /\ calls # << >>)
        => calls[1].repl = OneQuoteLayer(Strip(Selected(parts)))

\* a branch that holds a simple placeholder and no "?"
PlaceholderBranch(t) ==
    /\ NextSimple(t, 1) # 0
    /\ ~Contains(t, <<"?">>)

\* C9: ternary-first ordering. When the selected branch of a ternary span
\* holds a simple placeholder (and neither branch a "?"), pass 1 replaces the
\* span by that branch, placeholder included, and a single run returns text
\* without the ternary wrapper.
PlaceholderInBranchResolved ==
    (/\ result # << >>
     /\ PlaceholderBranch(Selected(parts))
     /\ ~Contains(parts.cond, <<"?">>)
     /\ ~Contains(parts.tbranch, <<"?">>)
     /\ ~Contains(parts.fbranch, <<"?">>)
     /\ ~Contains(parts.fbranch, <<":">>))
        => /\ pass1[1] = parts.pre \o NormalizeBranch(Selected(parts)) \o parts.post
           /\ ~Contains(result[1], <<"$","{">> \o parts.cond \o <<"?">>)

\* C1: idempotence. A second run of expand_content returns what the first
\* returned, and the first run's output holds no span the ternary pattern
\* matches.
Idempotent ==
    Len(result) = 2
        => /\ result[2] = result[1]
           /\ NextTernary(result[1], 1) = 0

(***************************************************************************)
(* process_file and process_directory                                      *)
(***************************************************************************)
RECURSIVE SubTernary(_)
SubTernary(s) ==
    LET p == NextTernary(s, 1)
    IN IF p = 0 THEN s
       ELSE SubSeq(s, 1, p - 1) \o expand_ternary(SpanBody(s, p))
                \o SubTernary(Tail_(s, SpanEnd(s, p) + 1))

RECURSIVE SubSimple(_)
SubSimple(s) ==
    LET p == NextSimple(s, 1)
    IN IF p = 0 THEN s
       ELSE SubSeq(s, 1, p - 1) \o expand_simple_var(SpanBody(s, p))
                \o SubSimple(Tail_(s, SpanEnd(s, p) + 1))

expand_content(text) == SubSimple(SubTernary(text))

\* number of .md files under the directory
NumFiles == 2

Files == 1..NumFiles
FileTexts == {<<"p","l","a","i","n"," ","t","e","x","t">>, <<"$","{","F","A","L","S","E","?","a",":","\"","b","\"","}"," ","c">>, <<"U","s","e"," ","$","{","W","R","I","T","E","_","T","O","O","L","_","N","A","M","E","}">>, <<"$","{","R","U","N","T","I","M","E","_","V","A","R","}">>}

InitFiles ==
    /\ pc = "walking"
    /\ disk \in [Files -> FileTexts]
    /\ original = disk
    /\ todo = Files
    /\ attempts = [f \in Files |-> 0]
    /\ report = [f \in Files |-> "none"]
    /\ writes = [f \in Files |-> 0]
    /\ count = 0
    /\ a = << >> /\ b = << >> /\ res = NoResults
    /\ parts = << >> /\ content = << >> /\ pos = 0 /\ out = << >> /\ run = 0
    /\ calls = << >> /\ pass1 = << >> /\ result = << >>

\* variant that counts every processed file
CountEvery(n, returned) == n + 1

\* process_directory's "if process_file(filepath): count += 1"
CountAfter(n, returned) == IF returned THEN n + 1 ELSE n

\* what every process_file call does to the loop state
Processed(f, line, returned) ==
    /\ pc = "walking"
    /\ f \in todo
    /\ todo' = todo \ {f}
    /\ attempts' = [attempts EXCEPT ![f] = @ + 1]
    /\ report' = [report EXCEPT ![f] = line]
    /\ count' = CountAfter(count, returned)
    /\ UNCHANGED <<pc, original>>
    /\ UNCHANGED evalVars
    /\ UNCHANGED pipeVars

\* read_text raises: caught, reported, False
ProcessReadError(f) ==
    /\ Processed(f, "Error processing", FALSE)
    /\ UNCHANGED <<disk, writes>>

\* the expanded text equals the text read: nothing is written, False
ProcessNoChange(f) ==
    /\ expand_content(disk[f]) = disk[f]
    /\ Processed(f, "No changes", FALSE)
    /\ UNCHANGED <<disk, writes>>

\* the expanded text differs and write_text succeeds: True
ProcessExpanded(f) ==
    /\ expand_content(disk[f]) # disk[f]
    /\ Processed(f, "Expanded", TRUE)
    /\ disk' = [disk EXCEPT ![f] = expand_content(disk[f])]
    /\ writes' = [writes EXCEPT ![f] = @ + 1]

\* the expanded text differs and write_text raises, before or after the file
\* was truncated: caught, reported, False
ProcessWriteError(f) ==
    /\ expand_content(disk[f]) # disk[f]
    /\ Processed(f, "Error processing", FALSE)
    /\ \E left \in {disk[f], << >>} : disk' = [disk EXCEPT ![f] = left]
    /\ UNCHANGED writes

\* rglob is exhausted: process_directory returns count
ReturnCount ==
    /\ pc = "walking"
    /\ todo = {}
    /\ pc' = "returned"
    /\ UNCHANGED fileVars
    /\ UNCHANGED evalVars
    /\ UNCHANGED pipeVars

NextFiles ==
    \/ \E f \in Files : ProcessReadError(f)
    \/ \E f \in Files : ProcessNoChange(f)
    \/ \E f \in Files : ProcessExpanded(f)
    \/ \E f \in Files : ProcessWriteError(f)
    \/ ReturnCount

SpecFiles == InitFiles /\ [][NextFiles]_vars

\* C8: file-layer batch behaviour. Every document is attempted once, whatever
\* failed before it; a document is written only when its expanded text differs
\* from the text read; the count is the number of rewritten documents.
BatchBehaviour ==
    /\ \A f \in Files : attempts[f] = (IF f \in todo THEN 0 ELSE 1)
    /\ pc = "returned" => todo = {}
    /\ \A f \in Files : writes[f] <= 1
    /\ \A f \in Files :
        writes[f] = 1 => /\ expand_content(original[f]) # original[f]
                         /\ disk[f] = expand_content(original[f])
                         /\ report[f] = "Expanded"
    /\ \A f \in Files : report[f] = "No changes" => disk[f] = original[f]
    /\ count = Cardinality({f \in Files : writes[f] = 1})

BatchSurvivesFailure ==
    /\ pc = "returned"
    /\ \E f, g \in Files :
        /\ report[f] = "Error processing"
        /\ report[g] = "Expanded"
        /\ writes[f] = 0
    /\ count = 1
====
